---- MODULE Spec2Model ----
(***************************************************************************)
(* A model of the OcelotCubs backend: the socket.io chat fan-out of        *)
(* server.js, the register/login routes of routes/auth.js, the catalog     *)
(* routes of routes/games.js (with the schema of model/Game.js) and the    *)
(* session endpoints of server.js.                                         *)
(***************************************************************************)
EXTENDS Integers, Sequences, FiniteSets, TLC

\* ---------------------------------------------------------------- bounds
MaxConns == 2
MaxEvents == 2
MaxRequests == 3
MaxGames == 2
MaxTitleLen == 2
MaxSessionRequests == 5

\* ------------------------------------------------------------- JS values
\* A field that is not present in a JSON body or socket payload.
Absent == "<undefined>"

\* JavaScript's !v for the values the model draws: undefined and "" are falsy.
Falsy(v) == v \in {Absent, ""}

\* Number of entries of the sequence s whose eid is e.
CountIn(s, e) == Cardinality({i \in 1..Len(s) : s[i].eid = e})

\* Position of the first entry of s whose eid is e (0 when there is none).
IndexOf(s, e) ==
  IF \E i \in 1..Len(s) : s[i].eid = e
  THEN CHOOSE i \in 1..Len(s) : s[i].eid = e /\ \A j \in 1..(i - 1) : s[j].eid # e
  ELSE 0

\* ----------------------------------------------------------------- state
VARIABLES
  sockets,      \* socket id -> "new" | "connected" | "disconnected"
  events,       \* event id -> the sendMessage handler run for it
  nextEvent,    \* id of the next sendMessage event the server receives
  messages,     \* the Message Store: the saved Chat documents, in save order
  inbox,        \* socket id -> the receiveMessage envelopes delivered to it
  missed,       \* socket id -> events already broadcast when it connected
  audience      \* event id -> sockets connected when its io.emit ran

VARIABLES
  users,         \* the Account Store: the saved User documents, in save order
  uniqueIndex,   \* whether the User collection rejects a duplicate username or email
  requests,      \* request id -> the run of the register or login handler for it
  nextRequest    \* id of the next register or login request

VARIABLES
  games,        \* the Catalog Store: the saved Game documents, in save order
  lastSearch,   \* the latest GET /api/games request and its answer
  lastPost      \* the latest POST /api/games request and its answer

VARIABLES
  sessionStore,  \* session id -> the session saved under it (NoSession: none)
  cookie,        \* the session id in the client's connect.sid cookie (0: none)
  clock,         \* number of session requests served so far
  history,       \* "none" (no create-session has succeeded yet), "created" (one
                 \* has, and no logout completed since), "loggedOut" (a logout
                 \* completed after the latest successful create-session)
  lastRequest    \* the latest session request and its answer

chatVars == <<sockets, events, nextEvent, messages, inbox, missed, audience>>
authVars == <<users, uniqueIndex, requests, nextRequest>>
gamesVars == <<games, lastSearch, lastPost>>
sessionVars == <<sessionStore, cookie, clock, history, lastRequest>>
vars == <<chatVars, authVars, gamesVars, sessionVars>>

\* ------------------------------------------------------------------ chat
\* The sendMessage payloads the clients send: complete ones with and without a
\* display timestamp, and ones whose username or message is missing or empty.
Payload(u, m, t) == [username |-> u, message |-> m, timestamp |-> t]

Payloads ==
  { Payload("ann", "hi", "09:15"), Payload("ann", "hi", Absent),
    Payload(Absent, "hi", "09:15"), Payload("ann", "", Absent),
    Payload("", Absent, Absent) }

\* new Date().toLocaleTimeString([], {hour: "2-digit", minute: "2-digit"})
ServerTimeString == "12:00"

\* new Date(): the server's clock, the timestamp of every stored document
ServerDate == "server time"

Conns == 1..MaxConns
Events == 1..MaxEvents

NoPayload == Payload(Absent, Absent, Absent)
NoEvent == [conn |-> 0, data |-> NoPayload, pc |-> "unused", outcome |-> "none", saves |-> 0]

Connected == {c \in Conns : sockets[c] = "connected"}

\* Mutant: the validation rejects only a payload with both fields missing.
InvalidOnlyIfBothMissing(data) == Falsy(data.username) /\ Falsy(data.message)

\* The validation of the handler: if (!data.username || !data.message) return;
Invalid(data) == Falsy(data.username) \/ Falsy(data.message)

\* const timestampString = data.timestamp || new Date().toLocaleTimeString(...)
TimestampString(data) == IF Falsy(data.timestamp) THEN ServerTimeString ELSE data.timestamp

\* messageToEmit of event e
MessageToEmit(e) ==
  [eid |-> e,
   username |-> events[e].data.username,
   message |-> events[e].data.message,
   timestamp |-> TimestampString(events[e].data)]

\* Mutant: the connection handler replays the stored history to the new socket.
OnConnectReplaysHistory(c) ==
  [i \in 1..Len(messages) |->
     [eid |-> messages[i].eid, username |-> messages[i].username,
      message |-> messages[i].message, timestamp |-> ServerTimeString]]

\* What the connection handler emits to the socket that has just connected.
OnConnectEmits(c) == <<>>

\* Mutant: socket.broadcast.emit, which leaves the sender out.
RecipientsExceptSender(e) == {c \in Conns : sockets[c] = "connected" /\ c # events[e].conn}

\* The sockets io.emit('receiveMessage', ...) of event e delivers to.
Recipients(e) == {c \in Conns : sockets[c] = "connected"}

\* Mutant: the catch block still emits the message that was not saved.
CatchEmitsToAll(e) == {c \in Conns : sockets[c] = "connected"}

\* What the catch block of the handler emits for event e.
CatchEmits(e) == {}

\* io.on('connection'): a client opens socket c; socket ids are handed out in
\* the order of connection.
Connect(c) ==
  /\ sockets[c] = "new"
  /\ \A d \in 1..(c - 1) : sockets[d] # "new"
  /\ sockets' = [sockets EXCEPT ![c] = "connected"]
  /\ missed' = [missed EXCEPT ![c] = {e \in Events : events[e].outcome = "Broadcast"}]
  /\ inbox' = [inbox EXCEPT ![c] = inbox[c] \o OnConnectEmits(c)]
  /\ UNCHANGED <<events, nextEvent, messages, audience, authVars, gamesVars, sessionVars>>

\* socket.on('disconnect'): socket c leaves; the handler only logs.
Disconnect(c) ==
  /\ sockets[c] = "connected"
  /\ sockets' = [sockets EXCEPT ![c] = "disconnected"]
  /\ UNCHANGED <<events, nextEvent, messages, inbox, missed, audience, authVars, gamesVars, sessionVars>>

\* socket.on('sendMessage') up to its await: validate, build the document and
\* call save() once; an invalid payload returns at once.
SendMessage(c, data) ==
  /\ sockets[c] = "connected"
  /\ nextEvent <= MaxEvents
  /\ events' = [events EXCEPT ![nextEvent] =
       IF Invalid(data)
       THEN [conn |-> c, data |-> data, pc |-> "done", outcome |-> "Dropped", saves |-> 0]
       ELSE [conn |-> c, data |-> data, pc |-> "saving", outcome |-> "none", saves |-> 1]]
  /\ nextEvent' = nextEvent + 1
  /\ UNCHANGED <<sockets, messages, inbox, missed, audience, authVars, gamesVars, sessionVars>>

\* The save of event e reaches the database: the document is stored.
SaveSucceeds(e) ==
  /\ events[e].pc = "saving"
  /\ messages' = Append(messages, [eid |-> e,
                                   username |-> events[e].data.username,
                                   message |-> events[e].data.message,
                                   timestamp |-> ServerDate])
  /\ events' = [events EXCEPT ![e].pc = "saved"]
  /\ UNCHANGED <<sockets, nextEvent, inbox, missed, audience, authVars, gamesVars, sessionVars>>

\* The handler of e resumes after await newMessage.save() and runs io.emit.
EmitMessage(e) ==
  /\ events[e].pc = "saved"
  /\ inbox' = [c \in Conns |->
       IF c \in Recipients(e) THEN Append(inbox[c], MessageToEmit(e)) ELSE inbox[c]]
  /\ audience' = [audience EXCEPT ![e] = Connected]
  /\ events' = [events EXCEPT ![e].pc = "done", ![e].outcome = "Broadcast"]
  /\ UNCHANGED <<sockets, nextEvent, messages, missed, authVars, gamesVars, sessionVars>>

\* The save of event e rejects: the catch block logs and the handler ends.
SaveFails(e) ==
  /\ events[e].pc = "saving"
  /\ inbox' = [c \in Conns |->
       IF c \in CatchEmits(e) THEN Append(inbox[c], MessageToEmit(e)) ELSE inbox[c]]
  /\ events' = [events EXCEPT ![e].pc = "done", ![e].outcome = "PersistFailed"]
  /\ UNCHANGED <<sockets, nextEvent, messages, missed, audience, authVars, gamesVars, sessionVars>>

ChatNext ==
  \/ \E c \in Conns : Connect(c)
  \/ \E c \in Conns : Disconnect(c)
  \/ \E c \in Conns, data \in Payloads : SendMessage(c, data)
  \/ \E e \in Events : SaveSucceeds(e)
  \/ \E e \in Events : EmitMessage(e)
  \/ \E e \in Events : SaveFails(e)

\* ------------------------------------------------------------------ auth
\* The request bodies of POST /api/auth/register: complete ones, and ones with
\* a field missing or empty.
AuthBody(u, e, p) == [username |-> u, email |-> e, password |-> p]

RegisterBodies ==
  { AuthBody("alice", "a@x.com", "pw123"), AuthBody("bob", "a@x.com", "pw123"),
    AuthBody("alice", "b@x.com", "pw123"),
    AuthBody(Absent, "a@x.com", "pw123"), AuthBody("alice", "", "pw123"),
    AuthBody("alice", "a@x.com", Absent) }

\* The request bodies of POST /api/auth/login (they carry no username).
LoginBodies ==
  { AuthBody(Absent, "a@x.com", "pw123"), AuthBody(Absent, "a@x.com", "wrong"),
    AuthBody(Absent, "b@x.com", "pw123"),
    AuthBody(Absent, Absent, "pw123"), AuthBody(Absent, "a@x.com", "") }

Requests == 1..MaxRequests

\* bcrypt.hash(password, 10) and bcrypt.compare(password, hash)
BcryptHash(p) == <<"bcrypt", p>>
BcryptCompare(p, h) == h = BcryptHash(p)

\* jwt.sign({ id }, JWT_SECRET, { expiresIn: '1h' })
JwtSign(id) == <<"jwt", id>>

NoToken == <<>>
NoUser == [id |-> 0, username |-> Absent, email |-> Absent, password |-> <<>>]
NoResponse == [status |-> 0, text |-> "", token |-> NoToken]
Response(st, txt, tok) == [status |-> st, text |-> txt, token |-> tok]

\* A request slot: the route, the body, where its handler stands, the locals
\* hashedPassword and user, the error its catch block logged, and its answer.
NoRequest ==
  [route |-> "none", body |-> AuthBody(Absent, Absent, Absent), pc |-> "unused",
   hashed |-> <<>>, user |-> NoUser, err |-> "", res |-> NoResponse]

\* User.findOne({ email }): the first stored document with that email, or null.
FindByEmail(e) ==
  IF \E i \in 1..Len(users) : users[i].email = e
  THEN users[CHOOSE i \in 1..Len(users) :
               users[i].email = e /\ \A j \in 1..(i - 1) : users[j].email # e]
  ELSE NoUser

\* User.findOne({ username })
FindByUsername(u) ==
  IF \E i \in 1..Len(users) : users[i].username = u
  THEN users[CHOOSE i \in 1..Len(users) :
               users[i].username = u /\ \A j \in 1..(i - 1) : users[j].username # u]
  ELSE NoUser

\* Whether newUser.save() is rejected by the collection with a duplicate-key
\* error (E11000): only a collection with unique indexes rejects.
DuplicateKey(u, e) ==
  uniqueIndex /\ \E i \in 1..Len(users) : users[i].username = u \/ users[i].email = e

\* Mutant: the unknown-email branch of login answers differently.
UnknownEmailSaysNotFound == Response(404, "User not found.", NoToken)

\* The response of login when findOne returns no user.
UnknownEmailResponse == Response(400, "Invalid credentials.", NoToken)

\* The response of login when bcrypt.compare returns false.
WrongPasswordResponse == Response(400, "Invalid credentials.", NoToken)

\* POST /register up to its first await: the required-fields check, then
\* User.findOne({ email }) is issued.
RegisterStart(r, body) ==
  /\ r = nextRequest
  /\ nextRequest' = nextRequest + 1
  /\ requests' = [requests EXCEPT ![r] =
       IF Falsy(body.username) \/ Falsy(body.email) \/ Falsy(body.password)
       THEN [NoRequest EXCEPT !.route = "register", !.body = body, !.pc = "done",
                              !.res = Response(400, "All fields are required.", NoToken)]
       ELSE [NoRequest EXCEPT !.route = "register", !.body = body, !.pc = "findEmail"]]
  /\ UNCHANGED <<users, uniqueIndex, chatVars, gamesVars, sessionVars>>

\* The register handler resumes with existingEmail.
RegisterAfterFindEmail(r) ==
  /\ requests[r].route = "register"
  /\ requests[r].pc = "findEmail"
  /\ requests' = [requests EXCEPT ![r] =
       IF FindByEmail(requests[r].body.email) # NoUser
       THEN [@ EXCEPT !.pc = "done",
                      !.res = Response(400, "Email already registered.", NoToken)]
       ELSE [@ EXCEPT !.pc = "findUsername"]]
  /\ UNCHANGED <<users, uniqueIndex, nextRequest, chatVars, gamesVars, sessionVars>>

\* The register handler resumes with existingUsername.
RegisterAfterFindUsername(r) ==
  /\ requests[r].route = "register"
  /\ requests[r].pc = "findUsername"
  /\ requests' = [requests EXCEPT ![r] =
       IF FindByUsername(requests[r].body.username) # NoUser
       THEN [@ EXCEPT !.pc = "done",
                      !.res = Response(400, "Username already taken.", NoToken)]
       ELSE [@ EXCEPT !.pc = "hash"]]
  /\ UNCHANGED <<users, uniqueIndex, nextRequest, chatVars, gamesVars, sessionVars>>

\* The register handler resumes with hashedPassword and calls newUser.save().
RegisterAfterHash(r) ==
  /\ requests[r].route = "register"
  /\ requests[r].pc = "hash"
  /\ requests' = [requests EXCEPT ![r].pc = "save",
                                  ![r].hashed = BcryptHash(requests[r].body.password)]
  /\ UNCHANGED <<users, uniqueIndex, nextRequest, chatVars, gamesVars, sessionVars>>

\* newUser.save() settles: the document is stored and the handler answers 201
\* with a token, or the collection rejects it and the catch block answers 500.
RegisterAfterSave(r) ==
  /\ requests[r].route = "register"
  /\ requests[r].pc = "save"
  /\ IF DuplicateKey(requests[r].body.username, requests[r].body.email)
     THEN /\ requests' = [requests EXCEPT ![r].pc = "done", ![r].err = "E11000",
                 ![r].res = Response(500, "Unexpected error occurred.", NoToken)]
          /\ users' = users
     ELSE /\ users' = Append(users, [id |-> r,
                                      username |-> requests[r].body.username,
                                      email |-> requests[r].body.email,
                                      password |-> requests[r].hashed])
          /\ requests' = [requests EXCEPT ![r].pc = "done",
                 ![r].res = Response(201, "User registered successfully.", JwtSign(r))]
  /\ UNCHANGED <<uniqueIndex, nextRequest, chatVars, gamesVars, sessionVars>>

\* A database call of the register handler rejects: the catch block answers 500.
RegisterDbError(r) ==
  /\ requests[r].route = "register"
  /\ requests[r].pc \in {"findEmail", "findUsername", "save"}
  /\ requests' = [requests EXCEPT ![r].pc = "done", ![r].err = "db",
                                  ![r].res = Response(500, "Unexpected error occurred.", NoToken)]
  /\ UNCHANGED <<users, uniqueIndex, nextRequest, chatVars, gamesVars, sessionVars>>

\* POST /login up to its first await: the required-fields check, then
\* User.findOne({ email }) is issued.
LoginStart(l, body) ==
  /\ l = nextRequest
  /\ nextRequest' = nextRequest + 1
  /\ requests' = [requests EXCEPT ![l] =
       IF Falsy(body.email) \/ Falsy(body.password)
       THEN [NoRequest EXCEPT !.route = "login", !.body = body, !.pc = "done",
                              !.res = Response(400, "Email and password are required.", NoToken)]
       ELSE [NoRequest EXCEPT !.route = "login", !.body = body, !.pc = "findUser"]]
  /\ UNCHANGED <<users, uniqueIndex, chatVars, gamesVars, sessionVars>>

\* The login handler resumes with user: no user ends the request, a user goes
\* on to bcrypt.compare.
LoginAfterFindUser(l) ==
  /\ requests[l].route = "login"
  /\ requests[l].pc = "findUser"
  /\ requests' = [requests EXCEPT ![l] =
       IF FindByEmail(requests[l].body.email) = NoUser
       THEN [@ EXCEPT !.pc = "done", !.res = UnknownEmailResponse]
       ELSE [@ EXCEPT !.pc = "compare", !.user = FindByEmail(requests[l].body.email)]]
  /\ UNCHANGED <<users, uniqueIndex, nextRequest, chatVars, gamesVars, sessionVars>>

\* The login handler resumes with isMatch.
LoginAfterCompare(l) ==
  /\ requests[l].route = "login"
  /\ requests[l].pc = "compare"
  /\ requests' = [requests EXCEPT ![l] =
       IF ~BcryptCompare(requests[l].body.password, requests[l].user.password)
       THEN [@ EXCEPT !.pc = "done", !.res = WrongPasswordResponse]
       ELSE [@ EXCEPT !.pc = "done",
                      !.res = Response(200, "Login successful.", JwtSign(requests[l].user.id))]]
  /\ UNCHANGED <<users, uniqueIndex, nextRequest, chatVars, gamesVars, sessionVars>>

\* User.findOne of the login handler rejects: the catch block answers 500.
LoginDbError(l) ==
  /\ requests[l].route = "login"
  /\ requests[l].pc = "findUser"
  /\ requests' = [requests EXCEPT ![l].pc = "done", ![l].err = "db",
                                  ![l].res = Response(500, "Unexpected error occurred.", NoToken)]
  /\ UNCHANGED <<users, uniqueIndex, nextRequest, chatVars, gamesVars, sessionVars>>

AuthNext ==
  \/ \E r \in Requests, body \in RegisterBodies : RegisterStart(r, body)
  \/ \E r \in Requests : RegisterAfterFindEmail(r)
  \/ \E r \in Requests : RegisterAfterFindUsername(r)
  \/ \E r \in Requests : RegisterAfterHash(r)
  \/ \E r \in Requests : RegisterAfterSave(r)
  \/ \E r \in Requests : RegisterDbError(r)
  \/ \E l \in Requests, body \in LoginBodies : LoginStart(l, body)
  \/ \E l \in Requests : LoginAfterFindUser(l)
  \/ \E l \in Requests : LoginAfterCompare(l)
  \/ \E l \in Requests : LoginDbError(l)

\* ----------------------------------------------------------------- games
\* Titles and search terms are sequences of characters.
TitleChars == {"a", "A", "."}

\* A title or search term that is not present in the request.
AbsentText == <<Absent>>

RECURSIVE StringsUpTo(_)
\* The strings over TitleChars of length at most n.
StringsUpTo(n) ==
  IF n = 0 THEN {<<>>}
  ELSE LET shorter == StringsUpTo(n - 1)
       IN  shorter \cup {Append(w, ch) : w \in shorter, ch \in TitleChars}

Titles == StringsUpTo(MaxTitleLen) \ {<<>>}

\* req.query.search: absent, or a string (the empty one included).
SearchTerms == {AbsentText} \cup StringsUpTo(MaxTitleLen)

GameBody(t, d) == [title |-> t, description |-> d]

\* The request bodies of POST /api/games: with a title, and without one.
GameBodies ==
  {GameBody(t, Absent) : t \in Titles}
    \cup {GameBody(AbsentText, "fun"), GameBody(<<>>, "fun"), GameBody(AbsentText, Absent)}

NoSearch == [term |-> AbsentText, asked |-> FALSE, catalog |-> <<>>, result |-> <<>>]
NoPost == [body |-> GameBody(AbsentText, Absent), asked |-> FALSE, err |-> "", res |-> NoResponse]

\* The 'i' flag: letters compare without case.
LowerCase(ch) == IF ch = "A" THEN "a" ELSE ch

\* Whether one character of a regular expression matches one character of the
\* subject: "." matches any character, a letter matches itself in either case.
RegexCharMatches(pch, ch) == pch = "." \/ LowerCase(pch) = LowerCase(ch)

\* new RegExp(search, 'i').test(title): the pattern matches at some position.
RegexTest(pattern, title) ==
  \E i \in 1..(Len(title) + 1) :
    /\ i + Len(pattern) - 1 <= Len(title)
    /\ \A k \in 1..Len(pattern) : RegexCharMatches(pattern[k], title[i + k - 1])

\* const search = req.query.search || '';
SearchOf(term) == IF term = AbsentText \/ term = <<>> THEN <<>> ELSE term

\* Game.find({ title: { $regex: regex } }): the stored documents it selects.
Find(term) == SelectSeq(games, LAMBDA g : RegexTest(SearchOf(term), g.title))

\* The 'required: true' of title in gameSchema: a missing or empty title fails.
TitleRequired(body) == body.title = AbsentText \/ body.title = <<>>

\* What a client gets when an async route handler rejects outside any
\* try/catch: no answer at all (Express 4 never learns of the rejection), or
\* the framework's default 500 (Express 5 forwards it to the error handler).
UnhandledRejectionAnswers == {NoResponse, Response(500, "Internal Server Error", NoToken)}

\* GET /api/games: build the regular expression, find, answer with the list.
SearchGames(term) ==
  /\ lastSearch' = [term |-> term, asked |-> TRUE, catalog |-> games, result |-> Find(term)]
  /\ UNCHANGED <<games, lastPost, chatVars, authVars, sessionVars>>

\* POST /api/games with a body that passes validation: save and answer 201.
CreateGame(body) ==
  /\ ~TitleRequired(body)
  /\ Len(games) < MaxGames
  /\ games' = Append(games, body)
  /\ lastPost' = [body |-> body, asked |-> TRUE, err |-> "",
                  res |-> Response(201, "created", NoToken)]
  /\ UNCHANGED <<lastSearch, chatVars, authVars, sessionVars>>

\* POST /api/games whose save rejects with a ValidationError: the handler has
\* no try/catch, so its promise rejects and res.status(201) is never reached.
CreateGameRejected(body, answer) ==
  /\ TitleRequired(body)
  /\ answer \in UnhandledRejectionAnswers
  /\ lastPost' = [body |-> body, asked |-> TRUE, err |-> "ValidationError", res |-> answer]
  /\ UNCHANGED <<games, lastSearch, chatVars, authVars, sessionVars>>

GamesNext ==
  \/ \E term \in SearchTerms : SearchGames(term)
  \/ \E body \in GameBodies : CreateGame(body)
  \/ \E body \in GameBodies, answer \in UnhandledRejectionAnswers : CreateGameRejected(body, answer)

\* --------------------------------------------------------------- session
\* The bodies of POST /api/create-session.
SessionUserIds == {Absent, "", "u1"}
SessionUsernames == {Absent, "alice", "bob"}

SessionIds == 1..MaxSessionRequests

NoSessionUser == [id |-> Absent, username |-> Absent, loginTime |-> 0]

\* No session is saved under the id; also what a request without a saved
\* session gets as req.session (saveUninitialized: false keeps it unsaved).
NoSession == [saved |-> FALSE, user |-> NoSessionUser, lastActivity |-> 0]

NoSessionRequest ==
  [kind |-> "none", status |-> 0, text |-> "", isLoggedIn |-> FALSE,
   user |-> NoSessionUser, sessionId |-> 0, missing |-> FALSE]

\* req.sessionID: the cookie's id when a session is saved under it, else a new id.
RequestSessionId == IF cookie # 0 /\ sessionStore[cookie].saved THEN cookie ELSE clock + 1

\* req.session as the session middleware loads it for the request.
RequestSession == IF cookie # 0 /\ sessionStore[cookie].saved THEN sessionStore[cookie] ELSE NoSession

\* Mutant: the endpoints test only req.session, which always exists.
HasSessionObject(session) == TRUE

\* req.session && req.session.user
HasUser(session) == session.user # NoSessionUser

\* POST /api/create-session
CreateSession(userId, username) ==
  /\ clock < MaxSessionRequests
  /\ clock' = clock + 1
  /\ IF Falsy(userId) \/ Falsy(username)
     THEN /\ lastRequest' = [NoSessionRequest EXCEPT !.kind = "create-session", !.status = 400,
                                                     !.text = "Missing user data", !.missing = TRUE]
          /\ UNCHANGED <<sessionStore, cookie, history>>
     ELSE /\ sessionStore' = [sessionStore EXCEPT ![RequestSessionId] =
                 [saved |-> TRUE,
                  user |-> [id |-> userId, username |-> username, loginTime |-> clock + 1],
                  lastActivity |-> clock + 1]]
          /\ cookie' = RequestSessionId
          /\ history' = "created"
          /\ lastRequest' = [NoSessionRequest EXCEPT !.kind = "create-session", !.status = 200,
                                !.text = "Session created successfully",
                                !.sessionId = RequestSessionId]
  /\ UNCHANGED <<chatVars, authVars, gamesVars>>

\* POST /api/heartbeat
Heartbeat ==
  /\ clock < MaxSessionRequests
  /\ clock' = clock + 1
  /\ IF HasUser(RequestSession)
     THEN /\ sessionStore' = [sessionStore EXCEPT ![RequestSessionId] =
                 [saved |-> TRUE, user |-> RequestSession.user, lastActivity |-> clock + 1]]
          /\ cookie' = RequestSessionId
          /\ lastRequest' = [NoSessionRequest EXCEPT !.kind = "heartbeat", !.status = 200,
                                                     !.text = "active"]
     ELSE /\ lastRequest' = [NoSessionRequest EXCEPT !.kind = "heartbeat", !.status = 401,
                                                     !.text = "No active session"]
          /\ UNCHANGED <<sessionStore, cookie>>
  /\ UNCHANGED <<history, chatVars, authVars, gamesVars>>

\* GET /api/session-status
SessionStatus ==
  /\ clock < MaxSessionRequests
  /\ clock' = clock + 1
  /\ lastRequest' =
       IF HasUser(RequestSession)
       THEN [NoSessionRequest EXCEPT !.kind = "session-status", !.status = 200,
                                     !.isLoggedIn = TRUE, !.user = RequestSession.user]
       ELSE [NoSessionRequest EXCEPT !.kind = "session-status", !.status = 200]
  /\ UNCHANGED <<sessionStore, cookie, history, chatVars, authVars, gamesVars>>

\* POST /api/logout whose req.session.destroy succeeds: the session is removed
\* from the store and the cookie is cleared.  (req.session always exists under
\* the session middleware, so the 'No active session' branch is never taken.)
Logout ==
  /\ clock < MaxSessionRequests
  /\ clock' = clock + 1
  /\ sessionStore' = [sid \in SessionIds |->
       IF sid = RequestSessionId THEN NoSession ELSE sessionStore[sid]]
  /\ cookie' = 0
  /\ history' = (IF history = "none" THEN "none" ELSE "loggedOut")
  /\ lastRequest' = [NoSessionRequest EXCEPT !.kind = "logout", !.status = 200,
                                             !.text = "Logged out successfully"]
  /\ UNCHANGED <<chatVars, authVars, gamesVars>>

\* POST /api/logout whose req.session.destroy fails: 500, nothing is removed.
LogoutFails ==
  /\ clock < MaxSessionRequests
  /\ clock' = clock + 1
  /\ lastRequest' = [NoSessionRequest EXCEPT !.kind = "logout", !.status = 500,
                                             !.text = "Could not log out properly"]
  /\ UNCHANGED <<sessionStore, cookie, history, chatVars, authVars, gamesVars>>

SessionNext ==
  \/ \E userId \in SessionUserIds, username \in SessionUsernames : CreateSession(userId, username)
  \/ Heartbeat
  \/ SessionStatus
  \/ Logout
  \/ LogoutFails

\* ------------------------------------------------------------ initial state
\* The state after start-up: no socket, no request, empty collections.  The
\* User collection rejects duplicate usernames and emails iff uniqueIndex.
InitWith(indexes) ==
  /\ sockets = [c \in Conns |-> "new"]
  /\ events = [e \in Events |-> NoEvent]
  /\ nextEvent = 1
  /\ messages = <<>>
  /\ inbox = [c \in Conns |-> <<>>]
  /\ missed = [c \in Conns |-> {}]
  /\ audience = [e \in Events |-> {}]
  /\ users = <<>>
  /\ uniqueIndex \in indexes
  /\ requests = [r \in Requests |-> NoRequest]
  /\ nextRequest = 1
  /\ games = <<>>
  /\ lastSearch = NoSearch
  /\ lastPost = NoPost
  /\ sessionStore = [sid \in SessionIds |-> NoSession]
  /\ cookie = 0
  /\ clock = 0
  /\ history = "none"
  /\ lastRequest = NoSessionRequest

\* Start-up over a User collection with unique indexes.
Init == InitWith({TRUE})

\* Start-up over a User collection with or without unique indexes.
InitAnyIndexes == InitWith(BOOLEAN)

\* --------------------------------------------------------- specifications
\* The chat channel alone.
SpecChat == Init /\ [][ChatNext]_vars

\* The register and login routes alone, over a User collection with or
\* without unique indexes.
SpecAuth == InitAnyIndexes /\ [][AuthNext]_vars

\* The catalog routes alone.
SpecGames == Init /\ [][GamesNext]_vars

\* The session endpoints alone, for one client with one cookie jar.
SpecSession == Init /\ [][SessionNext]_vars

\* ------------------------------------------------------------ chat claims
Received(e) == events[e].pc # "unused"

NowhereDelivered(e) == \A c \in Conns : CountIn(inbox[c], e) = 0

DeliveredOnceToAudience(e) ==
  \A c \in Conns : CountIn(inbox[c], e) = (IF c \in audience[e] THEN 1 ELSE 0)

\* C1: a sendMessage event with non-empty username and message is never
\* dropped; once its save has succeeded its document is in the Message Store
\* exactly once, and once its handler has finished, receiveMessage has been
\* delivered exactly once to every socket connected at the emit (the sender,
\* if still connected, included) and to no other, whatever connects,
\* disconnects and other chat events interleave with it.
C1_PersistOnceBroadcastOnce ==
  \A e \in Events :
    (Received(e) /\ ~(Falsy(events[e].data.username) \/ Falsy(events[e].data.message))) =>
      /\ events[e].outcome # "Dropped"
      /\ events[e].pc = "saving" => (CountIn(messages, e) = 0 /\ NowhereDelivered(e))
      /\ events[e].pc = "saved" => (CountIn(messages, e) = 1 /\ NowhereDelivered(e))
      /\ (events[e].pc = "done" /\ events[e].outcome # "PersistFailed") =>
            /\ events[e].outcome = "Broadcast"
            /\ CountIn(messages, e) = 1
            /\ DeliveredOnceToAudience(e)

\* C1 witness: a valid event was broadcast to two connected sockets, one of
\* them its sender, after another chat event had been handled.
C1_Witness ==
  \E e \in Events :
    /\ events[e].outcome = "Broadcast"
    /\ events[e].conn \in audience[e]
    /\ Cardinality(audience[e]) >= 2
    /\ CountIn(inbox[events[e].conn], e) = 1
    /\ \E f \in Events : f # e /\ Received(f)

C2_State ==
  \A e \in Events :
    (Received(e) /\ (Falsy(events[e].data.username) \/ Falsy(events[e].data.message))) =>
      /\ events[e].pc = "done"
      /\ events[e].outcome = "Dropped"
      /\ events[e].saves = 0
      /\ CountIn(messages, e) = 0
      /\ NowhereDelivered(e)

C2_Step ==
  \A e \in Events :
    (~Received(e) /\ events'[e].outcome = "Dropped") =>
      /\ sockets' = sockets
      /\ messages' = messages
      /\ inbox' = inbox

C3_PersistFailureNoBroadcast ==
  /\ \A e \in Events :
        events[e].outcome = "PersistFailed" =>
          /\ events[e].pc = "done"
          /\ events[e].saves = 1
          /\ CountIn(messages, e) = 0
          /\ NowhereDelivered(e)
          /\ \A f \in Events :
                (f > e /\ events[f].conn = events[e].conn /\ events[f].pc = "done"
                   /\ events[f].outcome \notin {"Dropped", "PersistFailed"}) =>
                  (events[f].outcome = "Broadcast" /\ CountIn(messages, f) = 1
                     /\ DeliveredOnceToAudience(f))
  /\ \A c \in Conns : \A i \in 1..Len(inbox[c]) : CountIn(messages, inbox[c][i].eid) = 1

\* C3 witness: a save failed, and a later event of the same socket was saved
\* and broadcast to that socket.
C3_Witness ==
  \E e, f \in Events :
    /\ e < f
    /\ events[e].outcome = "PersistFailed"
    /\ events[f].conn = events[e].conn
    /\ events[f].outcome = "Broadcast"
    /\ events[f].conn \in audience[f]

\* C4: two events of one socket that were both broadcast reach every socket
\* that got both in the order in which the server received them.
C4_BroadcastInReceiveOrder ==
  \A e, f \in Events :
    (e < f /\ events[e].conn = events[f].conn
       /\ events[e].outcome = "Broadcast" /\ events[f].outcome = "Broadcast") =>
      \A c \in Conns :
        (CountIn(inbox[c], e) > 0 /\ CountIn(inbox[c], f) > 0) =>
          IndexOf(inbox[c], e) < IndexOf(inbox[c], f)

\* C7: a socket that connected after a message was broadcast never holds that
\* message, and a socket holds a message only if it was connected when the
\* message was emitted.
C7_NoReplayOnConnect ==
  \A c \in Conns : \A e \in Events :
    /\ e \in missed[c] => CountIn(inbox[c], e) = 0
    /\ CountIn(inbox[c], e) > 0 => c \in audience[e]

\* C7 witness: a socket connected after a broadcast, has since received a
\* later message, and does not hold the earlier one.
C7_Witness ==
  \E c \in Conns : \E e, f \in Events :
    /\ e \in missed[c]
    /\ CountIn(inbox[c], f) = 1
    /\ CountIn(messages, e) = 1
    /\ sockets[c] = "connected"

\* ------------------------------------------------------------ auth claims
SharesIdentity(i, j) ==
  users[i].email = users[j].email \/ users[i].username = users[j].username

\* C5: whatever register requests ran and however their handlers interleaved,
\* no two stored accounts share an email or a username, and a registration
\* turned away because its email or username is already stored is answered
\* with a 400 and has stored no account.
C5_UniqueAccounts ==
  /\ \A i, j \in 1..Len(users) : i # j => ~SharesIdentity(i, j)
  /\ \A r \in Requests :
        requests[r].err = "E11000" =>
          (requests[r].res.status = 400 /\ \A i \in 1..Len(users) : users[i].id # r)

FailedCredentials(l) ==
  /\ requests[l].route = "login"
  /\ requests[l].pc = "done"
  /\ requests[l].err = ""
  /\ ~Falsy(requests[l].body.email)
  /\ ~Falsy(requests[l].body.password)
  /\ requests[l].res.status # 200

\* C6: a login that fails on its credentials is answered 400 'Invalid
\* credentials.' whether the email belongs to an account (and the password
\* is wrong) or to none: any two such logins get the same status and body.
C6_SameFailureResponse ==
  \A l, m \in Requests :
    (FailedCredentials(l) /\ FailedCredentials(m)) =>
      /\ requests[l].res = requests[m].res
      /\ requests[l].res.status = 400
      /\ requests[l].res.text = "Invalid credentials."
      /\ requests[l].res.token = NoToken

\* C6 witness: one finished login found the account and had the wrong
\* password, another found no account for its email.
C6_Witness ==
  \E l, m \in Requests :
    /\ FailedCredentials(l) /\ FailedCredentials(m)
    /\ requests[l].user # NoUser
    /\ ~BcryptCompare(requests[l].body.password, requests[l].user.password)
    /\ requests[m].user = NoUser
    /\ requests[l].res = requests[m].res

\* ----------------------------------------------------------- games claims
\* Whether title contains term as a substring, letters compared without case.
ContainsIgnoringCase(title, term) ==
  \E i \in 1..(Len(title) + 1) :
    /\ i + Len(term) - 1 <= Len(title)
    /\ \A k \in 1..Len(term) : LowerCase(term[k]) = LowerCase(title[i + k - 1])

\* C8: the answer of a search is every stored entry when the term is absent
\* or empty, and otherwise exactly the stored entries whose title contains
\* the term as a case-insensitive substring.
C8_SearchIsSubstringMatch ==
  lastSearch.asked =>
    lastSearch.result =
      (IF lastSearch.term = AbsentText \/ lastSearch.term = <<>>
       THEN lastSearch.catalog
       ELSE SelectSeq(lastSearch.catalog,
                      LAMBDA g : ContainsIgnoringCase(g.title, lastSearch.term)))

\* C9: a POST /api/games without a title is answered with a client error
\* that carries a message, and creates no entry.
C9_MissingTitleClientError ==
  (lastPost.asked /\ (lastPost.body.title = AbsentText \/ lastPost.body.title = <<>>)) =>
    /\ lastPost.res.status \in 400..499
    /\ lastPost.res.text # ""
    /\ \A i \in 1..Len(games) : games[i].title # AbsentText /\ games[i].title # <<>>

\* --------------------------------------------------------- session claims
\* A create-session has succeeded and no logout has completed since.
Established == history = "created"

C10_State ==
  /\ lastRequest.kind = "session-status" =>
       (lastRequest.status = 200 /\ lastRequest.isLoggedIn = Established)
  /\ lastRequest.kind = "heartbeat" =>
       IF Established
       THEN lastRequest.status = 200 /\ lastRequest.text = "active"
       ELSE lastRequest.status = 401
  /\ lastRequest.kind = "create-session" =>
       IF lastRequest.missing
       THEN lastRequest.status = 400
       ELSE lastRequest.status = 200 /\ Established
  /\ (lastRequest.kind = "logout" /\ lastRequest.status = 200) => ~Established

C10_Step ==
  (lastRequest'.kind = "create-session" /\ lastRequest'.status = 400) =>
    (sessionStore' = sessionStore /\ cookie' = cookie /\ history' = history)

====
